---- MODULE Spec2Model ----
(***************************************************************************)
(* Model of the universal planning agent: the console variant              *)
(* (src/python-autonomous-agent.py): ResourceAPI, EnvironmentAPI and       *)
(* UniversalPlanningAgent.make_autonomous_decision with its four tools,    *)
(* and the interactive variant (src/app.py), the script run by a press of  *)
(* its Execute button.                                                     *)
(*                                                                         *)
(* Python values are modelled as follows.                                  *)
(*  - A dict is a TLA+ record; a key the dict lacks is a field the record  *)
(*    lacks, and dict.get(key, default) is Get(d, key, default).           *)
(*  - An f-string is Fmt(text, nums, strs): the literal text with {} for   *)
(*    each interpolated value, the numbers interpolated and the strings    *)
(*    interpolated, in order.                                              *)
(*  - None is the record None.                                             *)
(*  - random.choice / random.randint are nondeterministic choices (\E).    *)
(*  - datetime.now() is the logical clock `now`, which advances once per   *)
(*    call of make_autonomous_decision.                                    *)
(***************************************************************************)
EXTENDS Integers, Sequences, FiniteSets, TLC

VARIABLES
    decision_log,       \* self.decision_log of the current agent instance
    calls,              \* calls of make_autonomous_decision made on this instance
    now,                \* logical clock behind datetime.now()
    pc,                 \* position of the current make_autonomous_decision call
    task_request,       \* argument of the current call
    conditions,         \* local `conditions` of check_environment_safety
    safe,               \* local `safe` of make_autonomous_decision
    reason,             \* local `reason`
    required_capacity,  \* local `required_capacity`
    selected_resource,  \* local `selected_resource`
    result,             \* the dict returned by the last completed call
    args,               \* arguments of the tool applied standalone
    ret,                \* its return value
    prev,               \* the standalone application before this one
    ui_pc,              \* position of the app.py script run
    widgets,            \* values of the form widgets of app.py
    ui_log,             \* entries rendered into the `log` container
    result_box,         \* content of the `result_box` placeholder
    weather_ok,         \* `weather_ok` of app.py
    total               \* `total` of app.py, in hundredths

vars == <<decision_log, calls, now, pc, task_request, conditions, safe, reason,
          required_capacity, selected_resource, result, args, ret, prev,
          ui_pc, widgets, ui_log, result_box, weather_ok, total>>

agentVars == <<decision_log, calls, now, pc, task_request, conditions, safe,
               reason, required_capacity, selected_resource, result>>

toolVars == <<args, ret, prev>>

uiVars == <<ui_pc, widgets, ui_log, result_box, weather_ok, total>>

-----------------------------------------------------------------------------
(* Bounds of the model *)

MaxCalls == 2
MaxDistance == 100
MaxRequired == 105

-----------------------------------------------------------------------------
(* Python values *)

None == [none |-> TRUE]

Get(d, key, default) == IF key \in DOMAIN d THEN d[key] ELSE default

Fmt(text, nums, strs) == [text |-> text, nums |-> nums, strs |-> strs]

-----------------------------------------------------------------------------
(* ResourceAPI.get_available_resources *)

Resource(id, capacity, status, location) ==
    [id |-> id, capacity |-> capacity, status |-> status, location |-> location]

GetAvailableResources(resource_type) ==
    IF resource_type = "drone" THEN
        << Resource("RESOURCE-001", 95, "available", "Base-A"),
           Resource("RESOURCE-002", 45, "available", "Base-A"),
           Resource("RESOURCE-003", 85, "charging", "Base-B"),
           Resource("RESOURCE-004", 100, "available", "Base-A") >>
    ELSE IF resource_type = "vehicle" THEN
        << Resource("VEHICLE-001", 80, "available", "Warehouse-1"),
           Resource("VEHICLE-002", 60, "available", "Warehouse-2"),
           Resource("VEHICLE-003", 90, "available", "Warehouse-1") >>
    ELSE
        << Resource("UNIT-001", 75, "available", "Station-A"),
           Resource("UNIT-002", 95, "available", "Station-B") >>

-----------------------------------------------------------------------------
(* EnvironmentAPI.check_conditions *)

MinWind == 5
MaxWind == 35
MinDelay == 0
MaxDelay == 45
MinTemp == 20
MaxTemp == 25

\* The values of random.randint(a, b) the model draws: both ends of the range.
RandintSamples(a, b) == {a, b}

WeatherReadings ==
    { [type |-> "weather", safe |-> s, details |-> [wind_speed |-> w]] :
        s \in {TRUE, FALSE}, w \in RandintSamples(MinWind, MaxWind) }

TrafficReadings ==
    { [type |-> "traffic", safe |-> s, details |-> [estimated_delay_min |-> m]] :
        s \in {TRUE, FALSE}, m \in RandintSamples(MinDelay, MaxDelay) }

\* FacilityReadings whose safety is drawn like that of the other readings.
FacilityReadingsDrawn ==
    { [type |-> "facility", safe |-> s, details |-> [temperature |-> t]] :
        s \in {TRUE, FALSE}, t \in RandintSamples(MinTemp, MaxTemp) }

FacilityReadings ==
    { [type |-> "facility", safe |-> TRUE, details |-> [temperature |-> t]] :
        t \in RandintSamples(MinTemp, MaxTemp) }

\* conditions_map.get(task_type, conditions_map["drone_mission"])
CheckConditions(task_type) ==
    IF task_type = "drone_mission" THEN WeatherReadings
    ELSE IF task_type = "delivery_route" THEN TrafficReadings
    ELSE IF task_type = "production_job" THEN FacilityReadings
    ELSE WeatherReadings

-----------------------------------------------------------------------------
(* UniversalPlanningAgent.log_decision *)

Entry(timestamp, step, decision, reasoning) ==
    [timestamp |-> timestamp, step |-> step, decision |-> decision,
     reasoning |-> reasoning]

LogDecision(log, timestamp, step, decision, reasoning) ==
    Append(log, Entry(timestamp, step, decision, reasoning))

-----------------------------------------------------------------------------
(* Tool 1: UniversalPlanningAgent.check_environment_safety *)

\* The (safe, reason) pair returned for a reading.
CheckEnvironmentSafety(c) ==
    IF ~c.safe THEN
        IF c.type = "weather" THEN
            << FALSE, Fmt("Unsafe weather: Wind {} km/h", <<c.details.wind_speed>>, <<>>) >>
        ELSE IF c.type = "traffic" THEN
            << FALSE, Fmt("Heavy traffic: {} min delay", <<c.details.estimated_delay_min>>, <<>>) >>
        ELSE
            << FALSE, Fmt("Conditions not favorable: {}", <<c.details.temperature>>, <<>>) >>
    ELSE
        << TRUE, Fmt("Conditions favorable for task execution", <<>>, <<>>) >>

-----------------------------------------------------------------------------
(* Tool 2: UniversalPlanningAgent.select_optimal_resource *)

\* IsCandidate that tests the status alone.
IsCandidateAnyCapacity(r, min_capacity) ==
    r.status = "available"

\* IsCandidate with a strict comparison of the capacity.
IsCandidateStrict(r, min_capacity) ==
    r.status = "available" /\ r.capacity > min_capacity

IsCandidate(r, min_capacity) ==
    r.status = "available" /\ r.capacity >= min_capacity

\* [r for r in resources if r["status"] == "available" and r["capacity"] >= min_capacity]
Available(resources, min_capacity) ==
    SelectSeq(resources, LAMBDA r : IsCandidate(r, min_capacity))

\* KeepOrReplace that also replaces on an equal key: the last maximum wins.
KeepOrReplaceOnTie(best, r) ==
    IF r.capacity >= best.capacity THEN r ELSE best

\* Python's max keeps the element it holds unless a later one is strictly greater.
KeepOrReplace(best, r) ==
    IF r.capacity > best.capacity THEN r ELSE best

RECURSIVE MaxFrom(_, _, _)
MaxFrom(s, i, best) ==
    IF i > Len(s) THEN best ELSE MaxFrom(s, i + 1, KeepOrReplace(best, s[i]))

\* max(available, key=lambda x: x["capacity"]), for a non-empty list
MaxByCapacity(available) == MaxFrom(available, 2, available[1])

\* Lines 192-211 over a fetched table: the value returned.
SelectBest(resources, min_capacity) ==
    LET available == Available(resources, min_capacity)
    IN  IF Len(available) = 0 THEN None ELSE MaxByCapacity(available)

\* The log_decision arguments select_optimal_resource passes for its outcome.
SelectionDecision(best) ==
    IF best = None THEN Fmt("FAILED", <<>>, <<>>)
    ELSE Fmt("Selected {}", <<>>, <<best.id>>)

SelectionReasoning(resource_type, min_capacity, best) ==
    IF best = None
    THEN Fmt("No {} available with capacity >= {}%", <<min_capacity>>, <<resource_type>>)
    ELSE Fmt("Capacity: {}%, Status: {}", <<best.capacity>>, <<best.status>>)

\* SelectOptimalResource that marks the resource it returns as assigned.
SelectOptimalResourceReserving(log, timestamp, resource_type, min_capacity) ==
    LET best == SelectBest(GetAvailableResources(resource_type), min_capacity)
        taken == IF best = None THEN None ELSE [best EXCEPT !.status = "assigned"]
    IN  [resource |-> taken,
         log |-> LogDecision(log, timestamp, "Resource Selection",
                             SelectionDecision(taken),
                             SelectionReasoning(resource_type, min_capacity, taken))]

\* SelectOptimalResource that logs a selection but not a failure.
SelectOptimalResourceSilentFailure(log, timestamp, resource_type, min_capacity) ==
    LET best == SelectBest(GetAvailableResources(resource_type), min_capacity)
    IN  [resource |-> best,
         log |-> IF best = None THEN log
                 ELSE LogDecision(log, timestamp, "Resource Selection",
                                  SelectionDecision(best),
                                  SelectionReasoning(resource_type, min_capacity, best))]

\* select_optimal_resource: the value returned and the log after the call.
SelectOptimalResource(log, timestamp, resource_type, min_capacity) ==
    LET best == SelectBest(GetAvailableResources(resource_type), min_capacity)
    IN  [resource |-> best,
         log |-> LogDecision(log, timestamp, "Resource Selection",
                             SelectionDecision(best),
                             SelectionReasoning(resource_type, min_capacity, best))]

-----------------------------------------------------------------------------
(* Tool 3: UniversalPlanningAgent.calculate_resource_requirement *)

\* Multiplier10 with the low and high factors exchanged.
Multiplier10Swapped(complexity) ==
    IF complexity = "low" THEN 16
    ELSE IF complexity = "medium" THEN 13
    ELSE IF complexity = "high" THEN 10
    ELSE 13

\* complexity_map.get(complexity, 1.3), in tenths
Multiplier10(complexity) ==
    IF complexity = "low" THEN 10
    ELSE IF complexity = "medium" THEN 13
    ELSE IF complexity = "high" THEN 16
    ELSE 13

\* BaseRequirement10 that tests the duration before the distance.
BaseRequirement10DurationFirst(distance, duration) ==
    IF duration > 0 THEN duration * 8
    ELSE IF distance > 0 THEN distance * 15
    ELSE 300

\* base_requirement, in tenths
BaseRequirement10(distance, duration) ==
    IF distance > 0 THEN distance * 15
    ELSE IF duration > 0 THEN duration * 8
    ELSE 300

\* int(base_requirement * multiplier * 1.2). The product is kept exactly, in
\* thousandths; int() of a non-negative value is the floor. For the integer
\* distances and durations of the model the IEEE-754 product of the source has
\* the same integer part as the exact product.
CalculateResourceRequirement(distance, complexity, duration) ==
    (BaseRequirement10(distance, duration) * Multiplier10(complexity) * 12) \div 1000

-----------------------------------------------------------------------------
(* Tool 4: UniversalPlanningAgent.plan_execution_path *)

MinSteps == 3
MaxSteps == 7
MinStepTime == 5
MaxStepTime == 20

\* random.randint(3, 7)
NumStepsChoices == MinSteps..MaxSteps

\* random.randint(5, 20), drawn at both ends of the range
StepTimeChoices == RandintSamples(MinStepTime, MaxStepTime)

PlanStep(i, t) ==
    [step |-> i, action |-> Fmt("Execute phase {}", <<i>>, <<>>),
     estimated_time_min |-> t]

\* sum(step["estimated_time_min"] for step in steps)
RECURSIVE SumTimes(_, _)
SumTimes(steps, n) ==
    IF n = 0 THEN 0 ELSE SumTimes(steps, n - 1) + steps[n].estimated_time_min

\* TotalTime that leaves the last step out of the sum.
TotalTimeButLast(steps) == SumTimes(steps, Len(steps) - 1)

TotalTime(steps) == SumTimes(steps, Len(steps))

\* The plan built from the drawn step count and step times.
BuildPlan(task_details, num_steps, times) ==
    LET steps == [i \in 1..num_steps |-> PlanStep(i, times[i])]
    IN  [start |-> Get(task_details, "start_location", "Base"),
         end |-> Get(task_details, "end_location", "Target"),
         total_steps |-> num_steps,
         estimated_duration_min |-> TotalTime(steps),
         steps |-> steps,
         contingency_plan |-> "Return to base if issues arise"]

\* Every plan plan_execution_path can return for the task.
PlanExecutionPath(task_details) ==
    UNION { { BuildPlan(task_details, n, times) :
                times \in [1..n -> StepTimeChoices] } : n \in NumStepsChoices }

-----------------------------------------------------------------------------
(* Task requests: the three of demo_multiple_industries and others that     *)
(* reach the remaining branches of make_autonomous_decision.                *)

drone_task ==
    [task_type |-> "drone_mission", resource_type |-> "drone",
     location |-> "Solar Farm Alpha", distance |-> 25, complexity |-> "medium",
     start_location |-> "Base-A", end_location |-> "Solar Farm Alpha"]

delivery_task ==
    [task_type |-> "delivery_route", resource_type |-> "vehicle",
     location |-> "Downtown District", distance |-> 15, complexity |-> "high",
     start_location |-> "Warehouse-1", end_location |-> "Customer Location"]

production_task ==
    [task_type |-> "production_job", resource_type |-> "machine",
     location |-> "Factory Floor A", duration |-> 45, complexity |-> "low",
     start_location |-> "Station-A", end_location |-> "Station-B"]

\* A request with no key at all: every .get takes its default.
EmptyTask == [k \in {} |-> k]

OtherTasks ==
    { EmptyTask,
      \* required 100: the largest the drone table serves
      [task_type |-> "maintenance_check", resource_type |-> "drone",
       distance |-> 56, complexity |-> "low"],
      \* required 101: one more than any drone has
      [task_type |-> "inspection_task", resource_type |-> "drone",
       duration |-> 106, complexity |-> "low"],
      \* required 288 on the machine table
      [task_type |-> "production_job", resource_type |-> "machine",
       distance |-> 100, complexity |-> "high", end_location |-> "Station-B"],
      \* required 93 on the vehicle table, whose best is 90
      [task_type |-> "delivery_route", resource_type |-> "vehicle",
       distance |-> 40, complexity |-> "medium"],
      \* an unrecognised task type, resource type and complexity
      [task_type |-> "patient_transfer", resource_type |-> "equipment",
       duration |-> 60, complexity |-> "extreme", start_location |-> "Ward-1"] }

Tasks == {drone_task, delivery_task, production_task} \cup OtherTasks

-----------------------------------------------------------------------------
(* UniversalPlanningAgent.__init__ and make_autonomous_decision *)

Terminal == {"APPROVED", "REJECTED"}

Init ==
    /\ decision_log = <<>>
    /\ calls = 0
    /\ now = 0
    /\ pc = "IDLE"
    /\ task_request = None
    /\ conditions = None
    /\ safe = None
    /\ reason = None
    /\ required_capacity = None
    /\ selected_resource = None
    /\ result = None
    /\ args = None
    /\ ret = None
    /\ prev = None
    /\ ui_pc = "FORM"
    /\ widgets = None
    /\ ui_log = <<>>
    /\ result_box = None
    /\ weather_ok = None
    /\ total = None

\* UniversalPlanningAgent(industry): a new instance replaces the current one.
NewAgent ==
    /\ pc \in Terminal
    /\ decision_log' = <<>>
    /\ calls' = 0
    /\ pc' = "IDLE"
    /\ UNCHANGED <<now, task_request, conditions, safe, reason,
                   required_capacity, selected_resource, result, toolVars, uiVars>>

\* make_autonomous_decision(task_request) is entered.
Call(t) ==
    /\ pc \in Terminal \cup {"IDLE"}
    /\ now < MaxCalls
    /\ task_request' = t
    /\ now' = now + 1
    /\ calls' = calls + 1
    /\ pc' = "ENV_CHECK"
    /\ conditions' = None
    /\ safe' = None
    /\ reason' = None
    /\ required_capacity' = None
    /\ selected_resource' = None
    /\ result' = None
    /\ UNCHANGED <<decision_log, toolVars, uiVars>>

\* Step 1, first half: check_environment_safety fetches the reading.
ReadConditions ==
    /\ pc = "ENV_CHECK"
    /\ conditions = None
    /\ \E c \in CheckConditions(Get(task_request, "task_type", "drone_mission")) :
          conditions' = c
    /\ UNCHANGED <<decision_log, calls, now, pc, task_request, safe, reason,
                   required_capacity, selected_resource, result, toolVars, uiVars>>

\* AfterEnvironment without the early return of lines 324-334.
AfterEnvironmentNoReturn(is_safe) == "REQUIREMENT_CALC"

\* Where the call goes after step 1: `if not safe: return`.
AfterEnvironment(is_safe) ==
    IF ~is_safe THEN "REJECTED" ELSE "REQUIREMENT_CALC"

RejectedDecision(why, log) ==
    [task_approved |-> FALSE, reason |-> why, decision_log |-> log]

\* Step 1, second half: the reading is judged and logged.
EnvironmentAnalysis ==
    /\ pc = "ENV_CHECK"
    /\ conditions # None
    /\ LET sr == CheckEnvironmentSafety(conditions)
           next == AfterEnvironment(sr[1])
           log == LogDecision(decision_log, now, "Environment Analysis",
                              IF next = "REJECTED"
                              THEN Fmt("TASK REJECTED", <<>>, <<>>)
                              ELSE Fmt("CONDITIONS APPROVED", <<>>, <<>>),
                              sr[2])
       IN  /\ safe' = sr[1]
           /\ reason' = sr[2]
           /\ decision_log' = log
           /\ pc' = next
           /\ result' = IF next = "REJECTED" THEN RejectedDecision(sr[2], log)
                        ELSE result
    /\ conditions' = None
    /\ UNCHANGED <<calls, now, task_request, required_capacity,
                   selected_resource, toolVars, uiVars>>

\* Step 2: the requirement is calculated and logged.
RequirementAnalysis ==
    /\ pc = "REQUIREMENT_CALC"
    /\ LET distance == Get(task_request, "distance", 0)
           complexity == Get(task_request, "complexity", "medium")
           duration == Get(task_request, "duration", 0)
           required == CalculateResourceRequirement(distance, complexity, duration)
       IN  /\ required_capacity' = required
           /\ decision_log' =
                 LogDecision(decision_log, now, "Requirement Analysis",
                             Fmt("Required Capacity: {}%", <<required>>, <<>>),
                             Fmt("Distance: {}, Complexity: {}", <<distance>>,
                                 <<complexity>>))
    /\ pc' = "RESOURCE_SELECT"
    /\ UNCHANGED <<calls, now, task_request, conditions, safe, reason,
                   selected_resource, result, toolVars, uiVars>>

\* AfterSelection without the early return of lines 358-363.
AfterSelectionNoReturn(selected) == "PLAN"

\* Where the call goes after step 3: `if not selected_resource: return`.
AfterSelection(selected) ==
    IF selected = None THEN "REJECTED" ELSE "PLAN"

\* Step 3: select_optimal_resource, which logs its own outcome.
ResourceSelection ==
    /\ pc = "RESOURCE_SELECT"
    /\ LET resource_type == Get(task_request, "resource_type", "drone")
           sel == SelectOptimalResource(decision_log, now, resource_type,
                                        required_capacity)
           next == AfterSelection(sel.resource)
       IN  /\ selected_resource' = sel.resource
           /\ decision_log' = sel.log
           /\ pc' = next
           /\ result' =
                 IF next = "REJECTED"
                 THEN RejectedDecision(
                        Fmt("No {} available with required capacity ({}%)",
                            <<required_capacity>>, <<resource_type>>), sel.log)
                 ELSE result
    /\ UNCHANGED <<calls, now, task_request, conditions, safe, reason,
                   required_capacity, toolVars, uiVars>>

ApprovedDecision(selected, required, plan, status, log) ==
    [task_approved |-> TRUE,
     resource_assigned |-> selected.id,
     resource_capacity |-> Fmt("{}% (required: {}%)",
                               <<selected.capacity, required>>, <<>>),
     execution_plan |-> plan,
     conditions_status |-> status,
     estimated_completion |-> Fmt("{} minutes", <<plan.estimated_duration_min>>, <<>>),
     decision_log |-> log,
     safety_checks |-> [environment |-> "PASS", resource_capacity |-> "PASS",
                        availability |-> "PASS"]]

\* Steps 4 and 5: the plan is drawn, the approval logged and returned.
\* selected_resource['id'] raises on None, and the call then returns nothing.
FinalDecision ==
    /\ pc = "PLAN"
    /\ selected_resource # None
    /\ \E plan \in PlanExecutionPath(task_request) :
          LET log == LogDecision(decision_log, now, "Final Decision",
                                 Fmt("TASK APPROVED", <<>>, <<>>),
                                 Fmt("All checks passed. {} ready for deployment.",
                                     <<>>, <<selected_resource.id>>))
          IN  /\ decision_log' = log
              /\ result' = ApprovedDecision(selected_resource, required_capacity,
                                            plan, reason, log)
    /\ pc' = "APPROVED"
    /\ UNCHANGED <<calls, now, task_request, conditions, safe, reason,
                   required_capacity, selected_resource, toolVars, uiVars>>

Next ==
    \/ NewAgent
    \/ \E t \in Tasks : Call(t)
    \/ ReadConditions
    \/ EnvironmentAnalysis
    \/ RequirementAnalysis
    \/ ResourceSelection
    \/ FinalDecision

Spec == Init /\ [][Next]_vars

-----------------------------------------------------------------------------
(* calculate_resource_requirement applied on its own, twice in a row *)

Complexities == {"low", "medium", "high", "extreme"}

\* The duration of production_task, and none.
Durations == {0, production_task.duration}

CalcArgs ==
    [distance : 0..MaxDistance, complexity : Complexities, duration : Durations]

ApplyCalculate ==
    /\ prev = None
    /\ \E a \in CalcArgs :
          /\ args' = a
          /\ ret' = CalculateResourceRequirement(a.distance, a.complexity, a.duration)
          /\ prev' = IF args = None THEN None ELSE [args |-> args, ret |-> ret]
    /\ UNCHANGED <<agentVars, uiVars>>

NextCalc == ApplyCalculate

SpecCalc == Init /\ [][NextCalc]_vars

-----------------------------------------------------------------------------
(* The selection of select_optimal_resource applied on its own: to the      *)
(* table of each resource type, and to drone fleets whose capacities and    *)
(* statuses differ from the built-in ones, so that maxima are shared.       *)

ResourceTypes == {"drone", "vehicle", "machine", "equipment"}

FleetVariants ==
    LET fleet == GetAvailableResources("drone")
        caps == {fleet[1].capacity, fleet[4].capacity}
        stats == {fleet[1].status, fleet[3].status}
    IN  { [i \in DOMAIN fleet |->
              [fleet[i] EXCEPT !.capacity = c[i], !.status = st[i]]] :
            c \in [DOMAIN fleet -> caps], st \in [DOMAIN fleet -> stats] }

FetchedTables ==
    { GetAvailableResources(rt) : rt \in ResourceTypes } \cup FleetVariants

ApplySelect ==
    /\ args = None
    /\ \E table \in FetchedTables, m \in 0..MaxRequired :
          /\ args' = [resources |-> table, min_capacity |-> m]
          /\ ret' = SelectBest(table, m)
    /\ UNCHANGED <<prev, agentVars, uiVars>>

NextSelect == ApplySelect

SpecSelect == Init /\ [][NextSelect]_vars

-----------------------------------------------------------------------------
(* The interactive variant, src/app.py.  A string the script searches or    *)
(* splits is the sequence of its characters.                                *)

\* "Favorable (Clear, Low Wind)"
WeatherFavorable ==
    << "F", "a", "v", "o", "r", "a", "b", "l", "e", " ", "(", "C", "l", "e",
      "a", "r", ",", " ", "L", "o", "w", " ", "W", "i", "n", "d", ")">>

\* "Moderate (Cloudy, Medium Wind)"
WeatherModerate ==
    << "M", "o", "d", "e", "r", "a", "t", "e", " ", "(", "C", "l", "o", "u",
      "d", "y", ",", " ", "M", "e", "d", "i", "u", "m", " ", "W", "i", "n",
      "d", ")">>

\* "Unfavorable (Rain / High Wind)"
WeatherUnfavorable ==
    << "U", "n", "f", "a", "v", "o", "r", "a", "b", "l", "e", " ", "(", "R",
      "a", "i", "n", " ", "/", " ", "H", "i", "g", "h", " ", "W", "i", "n",
      "d", ")">>

\* "Low - Simple task"
ComplexityLow ==
    << "L", "o", "w", " ", "-", " ", "S", "i", "m", "p", "l", "e", " ", "t",
      "a", "s", "k">>

\* "Medium - Standard operation"
ComplexityMedium ==
    << "M", "e", "d", "i", "u", "m", " ", "-", " ", "S", "t", "a", "n", "d",
      "a", "r", "d", " ", "o", "p", "e", "r", "a", "t", "i", "o", "n">>

\* "High - Complex mission"
ComplexityHigh ==
    << "H", "i", "g", "h", " ", "-", " ", "C", "o", "m", "p", "l", "e", "x",
      " ", "m", "i", "s", "s", "i", "o", "n">>

\* "Favorable"
StrFavorable ==
    << "F", "a", "v", "o", "r", "a", "b", "l", "e">>

\* "Moderate"
StrModerate ==
    << "M", "o", "d", "e", "r", "a", "t", "e">>

\* "Low"
StrLow ==
    << "L", "o", "w">>

\* "Medium"
StrMedium ==
    << "M", "e", "d", "i", "u", "m">>

\* "High"
StrHigh ==
    << "H", "i", "g", "h">>

\* needle in hay
Contains(needle, hay) ==
    \E i \in 1..(Len(hay) - Len(needle) + 1) :
        SubSeq(hay, i, i + Len(needle) - 1) = needle

\* [i for i in text.split() if i][0]: the first run of characters other
\* than spaces.
FirstWord(text) ==
    LET start == CHOOSE i \in 1..Len(text) :
                    text[i] # " " /\ \A j \in 1..(i - 1) : text[j] = " "
        stop == CHOOSE i \in (start + 1)..(Len(text) + 1) :
                    /\ i = Len(text) + 1 \/ text[i] = " "
                    /\ \A j \in start..(i - 1) : text[j] # " "
    IN  SubSeq(text, start, stop - 1)

MinSlider == 5
MaxSlider == 100

WeatherOptions == {WeatherFavorable, WeatherModerate, WeatherUnfavorable}

ComplexityOptions == {ComplexityLow, ComplexityMedium, ComplexityHigh}

\* The values the form can hold when Execute is pressed; the industry and the
\* location keep their defaults.
WidgetValues ==
    [industry : {"Autonomous Drones (FlytBase, DJI)"},
     location : {"Solar Farm Alpha"},
     distance : MinSlider..MaxSlider,
     complexity : ComplexityOptions,
     weather : WeatherOptions]

\* log_entry(step, decision, reasoning, status)
LogEntry(step, decision, reasoning, status) ==
    [step |-> step, decision |-> decision, reasoning |-> reasoning,
     status |-> status]

\* WeatherOutcomes that searches for "avorable", whatever letter precedes it.
WeatherOutcomesLoose(weather) ==
    IF Contains(Tail(StrFavorable), weather) THEN {TRUE}
    ELSE IF Contains(StrModerate, weather) THEN {TRUE, FALSE}
    ELSE {FALSE}

\* "Favorable" in weather or ("Moderate" in weather and random.random() > 0.3):
\* the values weather_ok can take.
WeatherOutcomes(weather) ==
    IF Contains(StrFavorable, weather) THEN {TRUE}
    ELSE IF Contains(StrModerate, weather) THEN {TRUE, FALSE}
    ELSE {FALSE}

\* {"Low":1.0,"Medium":1.3,"High":1.6}[first word], in tenths
ComplexityFactor10(complexity) ==
    LET word == FirstWord(complexity)
    IN  CASE word = StrLow -> 10
          [] word = StrMedium -> 13
          [] word = StrHigh -> 16

\* distance * 1.5 * complexity_factor, kept exactly, in hundredths.  For the
\* distances of the slider the IEEE-754 product of the source rounds and
\* compares as the exact product does.
Total100(distance, complexity) ==
    distance * 15 * ComplexityFactor10(complexity)

\* Python's round(num / den) for num >= 0: to the nearest integer, a tie to
\* the even one.
Round(num, den) ==
    LET q == num \div den
        r2 == 2 * (num % den)
    IN  IF r2 > den \/ (r2 = den /\ q % 2 = 1) THEN q + 1 ELSE q

\* resource_ok = total <= 95
ResourceOk(total100) == total100 <= 9500

\* eta = round((distance/45)*60)
Eta(distance) == Round(distance * 60, 45)

ErrorPanel(cause) ==
    [panel |-> "result-panel error", title |-> "TASK REJECTED", cause |-> cause]

ApprovedPanel(total100, eta, location) ==
    [panel |-> "result-panel", title |-> "TASK APPROVED",
     resource_assigned |-> "RESOURCE-001", capacity_use |-> 95,
     required |-> Round(total100, 100), eta |-> eta, location |-> location]

UiTerminal == {"APPROVED", "REJECTED"}

\* A widget other than the button is touched: the script reruns with
\* execute = False and renders the form alone.
Rerun ==
    /\ ui_pc \in UiTerminal
    /\ ui_pc' = "FORM"
    /\ widgets' = None
    /\ ui_log' = <<>>
    /\ result_box' = None
    /\ weather_ok' = None
    /\ total' = None
    /\ UNCHANGED <<agentVars, toolVars>>

\* The Execute button is pressed: the script reruns with the form's values
\* and renders the first entry of step 1.  A press on a finished page
\* discards that page as Rerun does, and is that step followed by this one.
Execute ==
    /\ ui_pc = "FORM"
    /\ \E w \in WidgetValues :
          /\ widgets' = w
          /\ ui_log' = << LogEntry("STEP 1: Environment Analysis",
                                   Fmt("Checking Conditions...", <<>>, <<>>),
                                   Fmt("Analyzing safety for {}", <<>>,
                                       <<w.location>>), "info") >>
    /\ ui_pc' = "STEP1"
    /\ result_box' = None
    /\ weather_ok' = None
    /\ total' = None
    /\ UNCHANGED <<agentVars, toolVars>>

\* Step 1: the conditions are judged; unsafe ones end the run (st.stop()).
UiEnvironment(ok) ==
    /\ ui_pc = "STEP1"
    /\ ok \in WeatherOutcomes(widgets.weather)
    /\ weather_ok' = ok
    /\ IF ok
       THEN /\ ui_log' = Append(ui_log,
                           LogEntry("STEP 1: Environment Analysis",
                                    Fmt("CONDITIONS APPROVED", <<>>, <<>>),
                                    Fmt("Environment is safe for operation",
                                        <<>>, <<>>), "success"))
            /\ ui_pc' = "STEP2"
            /\ UNCHANGED result_box
       ELSE /\ ui_log' = Append(ui_log,
                           LogEntry("STEP 1: Environment Analysis",
                                    Fmt("CONDITIONS UNSAFE", <<>>, <<>>),
                                    Fmt("Detected severe conditions", <<>>, <<>>),
                                    "error"))
            /\ result_box' = ErrorPanel("Unsafe environmental conditions")
            /\ ui_pc' = "REJECTED"
    /\ UNCHANGED <<widgets, total, agentVars, toolVars>>

\* Step 2: the load is computed and shown.
UiResourceCalculation ==
    /\ ui_pc = "STEP2"
    /\ LET t == Total100(widgets.distance, widgets.complexity)
       IN  /\ total' = t
           /\ ui_log' = ui_log \o
                 << LogEntry("STEP 2: Resource Calculation",
                             Fmt("Estimating Resource Load...", <<>>, <<>>),
                             Fmt("Distance: {}km, Complexity: {}",
                                 <<widgets.distance>>, widgets.complexity), "info"),
                    LogEntry("STEP 2: Resource Calculation",
                             Fmt("{}% total load", <<Round(t, 100)>>, <<>>),
                             Fmt("Added safety margin 20%", <<>>, <<>>),
                             "success") >>
    /\ ui_pc' = "STEP3"
    /\ UNCHANGED <<widgets, result_box, weather_ok, agentVars, toolVars>>

\* Step 3: the load is compared with the capacity of RESOURCE-001.
UiResourceSelection ==
    /\ ui_pc = "STEP3"
    /\ IF ResourceOk(total)
       THEN /\ ui_log' = Append(ui_log,
                           LogEntry("STEP 3: Resource Selection",
                                    Fmt("RESOURCE FOUND", <<>>, <<>>),
                                    Fmt("Assigned RESOURCE-001, 95% capacity",
                                        <<>>, <<>>), "success"))
            /\ ui_pc' = "STEP4"
            /\ UNCHANGED result_box
       ELSE /\ ui_log' = Append(ui_log,
                           LogEntry("STEP 3: Resource Selection",
                                    Fmt("INSUFFICIENT RESOURCES", <<>>, <<>>),
                                    Fmt("Capacity exceeds threshold", <<>>, <<>>),
                                    "error"))
            /\ result_box' = ErrorPanel("Insufficient resources")
            /\ ui_pc' = "REJECTED"
    /\ UNCHANGED <<widgets, weather_ok, total, agentVars, toolVars>>

\* Steps 4 and 5: the route and the approval are shown.
UiFinalDecision ==
    /\ ui_pc = "STEP4"
    /\ LET eta == Eta(widgets.distance)
       IN  /\ ui_log' = ui_log \o
                 << LogEntry("STEP 4: Path Planning",
                             Fmt("OPTIMAL ROUTE READY", <<>>, <<>>),
                             Fmt("ETA: {} minutes, 5 checkpoints", <<eta>>, <<>>),
                             "success"),
                    LogEntry("STEP 5: Final Decision",
                             Fmt("APPROVED", <<>>, <<>>),
                             Fmt("All systems ready for deployment", <<>>, <<>>),
                             "success") >>
           /\ result_box' = ApprovedPanel(total, eta, widgets.location)
    /\ ui_pc' = "APPROVED"
    /\ UNCHANGED <<widgets, weather_ok, total, agentVars, toolVars>>

NextUI ==
    \/ Rerun
    \/ Execute
    \/ \E ok \in {TRUE, FALSE} : UiEnvironment(ok)
    \/ UiResourceCalculation
    \/ UiResourceSelection
    \/ UiFinalDecision

SpecUI == Init /\ [][NextUI]_vars

-----------------------------------------------------------------------------
(* Claims about make_autonomous_decision *)

Stages == {"ENV_CHECK", "REQUIREMENT_CALC", "RESOURCE_SELECT", "PLAN"}

StepsOf(log) == [i \in DOMAIN log |-> log[i].step]

LaterSteps == {"Requirement Analysis", "Resource Selection", "Final Decision"}

\* C1: on a freshly constructed agent, a call whose environment check reports
\* unsafe returns task_approved = False with a decision_log of exactly one
\* entry, 'Environment Analysis' / 'TASK REJECTED', and no entry of a later
\* step.
C1_UnsafeRejectsWithOneEntry ==
    (pc \in Terminal /\ calls = 1 /\ safe = FALSE) =>
        /\ pc = "REJECTED"
        /\ result.task_approved = FALSE
        /\ Len(result.decision_log) = 1
        /\ result.decision_log[1].step = "Environment Analysis"
        /\ result.decision_log[1].decision.text = "TASK REJECTED"
        /\ \A i \in DOMAIN result.decision_log :
              result.decision_log[i].step \notin LaterSteps

C1_Witness ==
    /\ pc = "REJECTED"
    /\ calls = 1
    /\ safe = FALSE
    /\ Len(result.decision_log) = 1

\* Whether the table of the requested resource type holds an available entry
\* of at least the required capacity.
SomeSuitable(resource_type, required) ==
    \E i \in DOMAIN GetAvailableResources(resource_type) :
        /\ GetAvailableResources(resource_type)[i].status = "available"
        /\ GetAvailableResources(resource_type)[i].capacity >= required

C2_StageOrder ==
    pc' # pc =>
        \/ pc \in Terminal \cup {"IDLE"} /\ pc' \in {"ENV_CHECK", "IDLE"}
        \/ pc = "ENV_CHECK"
             /\ pc' = IF safe' THEN "REQUIREMENT_CALC" ELSE "REJECTED"
        \/ pc = "REQUIREMENT_CALC" /\ pc' = "RESOURCE_SELECT"
        \/ pc = "RESOURCE_SELECT"
             /\ pc' = IF SomeSuitable(Get(task_request, "resource_type", "drone"),
                                      required_capacity)
                      THEN "PLAN" ELSE "REJECTED"
        \/ pc = "PLAN" /\ pc' = "APPROVED"

C2_TerminalShape ==
    /\ pc = "REJECTED" =>
          /\ result.task_approved = FALSE
          /\ "execution_plan" \notin DOMAIN result
    /\ pc = "APPROVED" =>
          /\ result.task_approved = TRUE
          /\ "execution_plan" \in DOMAIN result
    /\ pc \in Stages => result = None

C2_Progress ==
    pc \in Stages =>
        ENABLED (ReadConditions \/ EnvironmentAnalysis \/ RequirementAnalysis
                   \/ ResourceSelection \/ FinalDecision)

\* C2: a call visits ENV_CHECK, REQUIREMENT_CALC, RESOURCE_SELECT, PLAN in
\* that order and ends in exactly one of APPROVED and REJECTED; REJECTED is
\* entered only from ENV_CHECK (unsafe) or RESOURCE_SELECT (no suitable
\* resource), exactly in those cases; a call in a stage can always take its
\* next step; a rejected call never reaches PLAN and its decision has no
\* execution_plan.
C2_LinearStagesAndRejection ==
    /\ [][C2_StageOrder]_vars
    /\ []C2_TerminalShape
    /\ []C2_Progress

C2_Witness ==
    /\ pc = "REJECTED"
    /\ safe = TRUE
    /\ selected_resource = None
    /\ "execution_plan" \notin DOMAIN result

\* C3: the decision_log a call returns holds only that call's entries: at
\* most 4, the first being the call's own 'Environment Analysis' entry.
C3_LogHoldsOnlyThisCall ==
    pc \in Terminal =>
        /\ Len(result.decision_log) <= 4
        /\ result.decision_log[1].step = "Environment Analysis"
        /\ result.decision_log[1].timestamp = now

C4_OneEntryPerTransition ==
    (pc \in Stages /\ pc' # pc) =>
        /\ Len(decision_log') = Len(decision_log) + 1
        /\ SubSeq(decision_log', 1, Len(decision_log)) = decision_log

C4_LogByOutcome ==
    (pc \in Terminal /\ calls = 1) =>
        /\ decision_log = result.decision_log
        /\ StepsOf(decision_log) =
              IF pc = "APPROVED" THEN
                  <<"Environment Analysis", "Requirement Analysis",
                    "Resource Selection", "Final Decision">>
              ELSE IF selected_resource = None /\ safe THEN
                  <<"Environment Analysis", "Requirement Analysis",
                    "Resource Selection">>
              ELSE <<"Environment Analysis">>
        /\ (pc = "REJECTED" /\ safe) =>
              decision_log[3].decision.text = "FAILED"

\* C4: every transition out of a stage appends exactly one entry to the
\* decision log, so on a fresh agent the log is 'Environment Analysis' alone
\* when rejected at ENV_CHECK, that followed by 'Requirement Analysis' and
\* 'Resource Selection' (FAILED) when rejected at RESOURCE_SELECT, and those
\* three followed by 'Final Decision' when approved.
C4_LogLengthIsTransitions ==
    /\ [][C4_OneEntryPerTransition]_vars
    /\ []C4_LogByOutcome

C4_Witness ==
    /\ pc = "REJECTED"
    /\ calls = 1
    /\ safe = TRUE
    /\ Len(decision_log) = 3

-----------------------------------------------------------------------------
(* Claims about the tools *)

Tiers == {"low", "medium", "high"}

TierFactor10(tier) ==
    CASE tier = "low" -> 10 [] tier = "medium" -> 13 [] tier = "high" -> 16

\* C5: for low/medium/high the result is the integer part of
\* base x multiplier x 1.2, with base = distance x 1.5 if distance > 0, else
\* duration x 0.8 if duration > 0, else 30; a positive distance takes
\* precedence over a positive duration; (25, medium) gives 58 and
\* (0, medium, 0) gives 46.
C5_RequirementFormula ==
    (args # None /\ args.complexity \in Tiers) =>
        LET base10 == IF args.distance > 0 THEN 15 * args.distance
                      ELSE IF args.duration > 0 THEN 8 * args.duration
                      ELSE 300
            exact1000 == base10 * TierFactor10(args.complexity) * 12
        IN  /\ ret \in Nat
            /\ 1000 * ret <= exact1000
            /\ exact1000 < 1000 * (ret + 1)
            /\ (args.distance = 25 /\ args.complexity = "medium") => ret = 58
            /\ (args.distance = 0 /\ args.duration = 0
                  /\ args.complexity = "medium") => ret = 46

C5_Witness ==
    /\ args # None
    /\ args.distance = 25
    /\ args.complexity = "medium"
    /\ args.duration > 0
    /\ ret = 58

TierRank(tier) ==
    CASE tier = "low" -> 1 [] tier = "medium" -> 2 [] tier = "high" -> 3

\* The result grows with the tier, for two applications to the same distance
\* and duration.
MonotoneInTier ==
    (/\ prev.args.distance = args.distance
     /\ prev.args.duration = args.duration
     /\ prev.args.complexity \in Tiers
     /\ args.complexity \in Tiers
     /\ TierRank(prev.args.complexity) <= TierRank(args.complexity))
        => prev.ret <= ret

\* C6 as stated: for every tier and all distances 0 <= d1 <= d2 with
\* duration 0 the result for d1 is at most the result for d2, and for a fixed
\* distance the results for low, medium, high are in that order.
C6_MonotoneFromZero ==
    (prev # None /\ prev.args.duration = 0 /\ args.duration = 0) =>
        /\ (prev.args.complexity = args.complexity
              /\ prev.args.distance <= args.distance) => prev.ret <= ret
        /\ MonotoneInTier

\* C6 as amended: the same for distances 0 < d1 <= d2; a distance of 0 takes
\* the default base of 30 and so exceeds the result of small positive
\* distances.
C6_MonotoneForPositiveDistance ==
    (prev # None /\ prev.args.duration = 0 /\ args.duration = 0) =>
        /\ (prev.args.complexity = args.complexity
              /\ 0 < prev.args.distance
              /\ prev.args.distance <= args.distance) => prev.ret <= ret
        /\ MonotoneInTier

C6_Witness ==
    /\ prev # None
    /\ prev.args.duration = 0
    /\ args.duration = 0
    /\ prev.args.complexity = "medium"
    /\ args.complexity = "medium"
    /\ prev.args.distance = 1
    /\ args.distance = 25
    /\ prev.ret = 2
    /\ ret = 58

\* The candidates of a table: the positions of its available entries of at
\* least the required capacity.
Candidates(table, required) ==
    { i \in DOMAIN table :
        table[i].status = "available" /\ table[i].capacity >= required }

\* C7: the selection returns, among the available entries of capacity >=
\* required, the first in table order of those with the greatest capacity;
\* never a 'charging' entry; over the drone table with required 58 it
\* returns RESOURCE-004.
C7_FirstMaximumAvailable ==
    (args # None /\ Candidates(args.resources, args.min_capacity) # {}) =>
        LET table == args.resources
            cand == Candidates(table, args.min_capacity)
            best == { i \in cand :
                        \A j \in cand : table[j].capacity <= table[i].capacity }
            first == CHOOSE i \in best : \A j \in best : i <= j
        IN  /\ ret = table[first]
            /\ ret.status # "charging"
            /\ (table = GetAvailableResources("drone") /\ args.min_capacity = 58)
                  => ret.id = "RESOURCE-004"

C7_Witness ==
    /\ args # None
    /\ args.resources = GetAvailableResources("drone")
    /\ args.min_capacity = 58
    /\ ret.id = "RESOURCE-004"

\* C8: the selection returns None exactly when no available entry has
\* capacity >= required (for the drone table: exactly when required > 100);
\* it then appends one 'Resource Selection' / 'FAILED' entry, and the call
\* returns task_approved = False, a reason naming the required capacity, and
\* the full decision log.
C8_NoneFoundIsRejection ==
    LET resource_type == Get(task_request, "resource_type", "drone")
        selected == pc \in {"PLAN", "APPROVED"} \/ (pc = "REJECTED" /\ safe)
    IN  /\ selected =>
              /\ (selected_resource = None) <=>
                    ~SomeSuitable(resource_type, required_capacity)
              /\ resource_type = "drone" =>
                    ((selected_resource = None) <=> required_capacity > 100)
        /\ (selected /\ selected_resource = None) =>
              LET n == Len(decision_log)
              IN  /\ pc = "REJECTED"
                  /\ decision_log[n].step = "Resource Selection"
                  /\ decision_log[n].decision.text = "FAILED"
                  /\ decision_log[n - 1].step = "Requirement Analysis"
                  /\ result.task_approved = FALSE
                  /\ result.reason.nums = <<required_capacity>>
                  /\ result.decision_log = decision_log

C8_Witness ==
    /\ pc = "REJECTED"
    /\ safe = TRUE
    /\ Get(task_request, "resource_type", "drone") = "drone"
    /\ required_capacity = 101
    /\ selected_resource = None
    /\ result.task_approved = FALSE

\* The sum of the step times, from the last step back to the first.
RECURSIVE SumFromTail(_)
SumFromTail(steps) ==
    IF steps = <<>> THEN 0
    ELSE Head(steps).estimated_time_min + SumFromTail(Tail(steps))

\* C9: a returned plan has total_steps in 3..7, exactly total_steps steps
\* numbered 1..total_steps with action 'Execute phase N', each step time in
\* 5..20, estimated_duration_min the sum of the step times (so within
\* 15..140), and start / end 'Base' / 'Target' when the task gives none.
C9_PlanShape ==
    pc = "APPROVED" =>
        LET plan == result.execution_plan
        IN  /\ plan.total_steps \in 3..7
            /\ Len(plan.steps) = plan.total_steps
            /\ \A i \in DOMAIN plan.steps :
                  /\ plan.steps[i].step = i
                  /\ plan.steps[i].action.text = "Execute phase {}"
                  /\ plan.steps[i].action.nums = <<i>>
                  /\ plan.steps[i].estimated_time_min \in 5..20
            /\ plan.estimated_duration_min = SumFromTail(plan.steps)
            /\ plan.estimated_duration_min \in 15..140
            /\ plan.start = IF "start_location" \in DOMAIN task_request
                            THEN task_request.start_location ELSE "Base"
            /\ plan.end = IF "end_location" \in DOMAIN task_request
                          THEN task_request.end_location ELSE "Target"

C9_Witness ==
    /\ pc = "APPROVED"
    /\ "start_location" \notin DOMAIN task_request
    /\ result.execution_plan.start = "Base"
    /\ result.execution_plan.end = "Target"
    /\ result.execution_plan.total_steps = 7
    /\ result.execution_plan.estimated_duration_min = 95

\* C10: the reading is a weather reading for drone_mission, a traffic
\* reading for delivery_route and a facility reading for every other task
\* type.
C10_ReadingByTaskType ==
    conditions # None =>
        LET task_type == Get(task_request, "task_type", "drone_mission")
        IN  conditions.type =
                IF task_type = "drone_mission" THEN "weather"
                ELSE IF task_type = "delivery_route" THEN "traffic"
                ELSE "facility"

-----------------------------------------------------------------------------
(* Claims about the interactive variant *)

\* The console's complexity tier for a choice of the form.
ConsoleTier(complexity) ==
    CASE complexity = ComplexityLow -> "low"
      [] complexity = ComplexityMedium -> "medium"
      [] complexity = ComplexityHigh -> "high"

\* C11: for every distance of the slider and every complexity tier, given a
\* safe environment, the interactive variant and the console variant agree
\* on approve/reject, on the required capacity percentage and on the
\* assigned drone.
C11_VariantsAgree ==
    (ui_pc \in UiTerminal /\ weather_ok = TRUE) =>
        LET required == CalculateResourceRequirement(
                            widgets.distance, ConsoleTier(widgets.complexity), 0)
            selected == SelectBest(GetAvailableResources("drone"), required)
        IN  /\ (ui_pc = "APPROVED") <=> (selected # None)
            /\ Round(total, 100) = required
            /\ (ui_pc = "APPROVED" /\ selected # None) =>
                  result_box.resource_assigned = selected.id

LaterUiSteps ==
    {"STEP 2: Resource Calculation", "STEP 3: Resource Selection",
     "STEP 4: Path Planning", "STEP 5: Final Decision"}

\* C13: the environment stage of the interactive variant approves when the
\* condition chosen is 'Favorable', rejects when it is 'Unfavorable' and can
\* do either when it is 'Moderate'; a rejection stops the run with the error
\* panel, and no entry of steps 2-5 nor the approval panel is rendered.
C13_UiEnvironmentStage ==
    /\ (ui_pc = "STEP1" /\ widgets.weather = WeatherModerate) =>
          (ENABLED UiEnvironment(TRUE)) /\ (ENABLED UiEnvironment(FALSE))
    /\ (ui_pc = "STEP1" /\ widgets.weather = WeatherFavorable) =>
          (ENABLED UiEnvironment(TRUE)) /\ ~(ENABLED UiEnvironment(FALSE))
    /\ (ui_pc = "STEP1" /\ widgets.weather = WeatherUnfavorable) =>
          ~(ENABLED UiEnvironment(TRUE)) /\ (ENABLED UiEnvironment(FALSE))
    /\ ui_pc \notin {"FORM", "STEP1"} =>
          /\ widgets.weather = WeatherFavorable => weather_ok = TRUE
          /\ widgets.weather = WeatherUnfavorable => weather_ok = FALSE
          /\ weather_ok = FALSE =>
                /\ ui_pc = "REJECTED"
                /\ result_box.panel = "result-panel error"
                /\ result_box.title = "TASK REJECTED"
                /\ Len(ui_log) = 2
                /\ \A i \in DOMAIN ui_log : ui_log[i].step \notin LaterUiSteps

C13_Witness ==
    /\ ui_pc = "REJECTED"
    /\ widgets.weather = WeatherModerate
    /\ weather_ok = FALSE
    /\ result_box.panel = "result-panel error"

-----------------------------------------------------------------------------
(* Claims about the resource table, approvals and the console demo *)

\* The entries of every table get_available_resources can return.
TableEntries ==
    UNION { { GetAvailableResources(rt)[i] :
                i \in DOMAIN GetAvailableResources(rt) } : rt \in ResourceTypes }

C14_ApprovalIsSound ==
    (pc \in Terminal /\ result.task_approved) =>
        LET table == GetAvailableResources(Get(task_request, "resource_type", "drone"))
        IN  /\ pc = "APPROVED"
            /\ safe = TRUE
            /\ \E i \in DOMAIN table :
                  /\ table[i].id = result.resource_assigned
                  /\ table[i].status = "available"
                  /\ table[i].capacity >= required_capacity
                  /\ result.resource_capacity.nums =
                        <<table[i].capacity, required_capacity>>
            /\ required_capacity =
                  CalculateResourceRequirement(Get(task_request, "distance", 0),
                                               Get(task_request, "complexity", "medium"),
                                               Get(task_request, "duration", 0))
            /\ "execution_plan" \in DOMAIN result
            /\ result.execution_plan # None

C14_Witness ==
    /\ pc = "APPROVED"
    /\ result.task_approved
    /\ required_capacity = 100
    /\ result.resource_assigned = "RESOURCE-004"

DemoTasks == {drone_task, delivery_task, production_task}

\* The required capacity and the resource the claim names for a demo task.
DemoExpected(task) ==
    IF task = drone_task THEN [required |-> 58, id |-> "RESOURCE-004", capacity |-> 100]
    ELSE IF task = delivery_task
    THEN [required |-> 43, id |-> "VEHICLE-003", capacity |-> 90]
    ELSE [required |-> 43, id |-> "UNIT-002", capacity |-> 95]

\* C15: none of the three demo tasks is rejected at RESOURCE_SELECT: they
\* require 58, 43 and 43 and are served by RESOURCE-004 (100), VEHICLE-003
\* (90) and UNIT-002 (95); the production task always ends APPROVED; the
\* other two are rejected only at ENV_CHECK.
C15_DemoOutcomes ==
    (pc # "IDLE" /\ task_request \in DemoTasks) =>
        /\ pc \in {"RESOURCE_SELECT", "PLAN", "APPROVED"} =>
              required_capacity = DemoExpected(task_request).required
        /\ pc \in {"PLAN", "APPROVED"} =>
              /\ selected_resource.id = DemoExpected(task_request).id
              /\ selected_resource.capacity = DemoExpected(task_request).capacity
        /\ pc = "REJECTED" =>
              /\ safe = FALSE
              /\ task_request # production_task
              /\ required_capacity = None
              /\ decision_log[Len(decision_log)].step = "Environment Analysis"
        /\ (pc \in Terminal /\ task_request = production_task) => pc = "APPROVED"

C15_Witness ==
    /\ pc = "APPROVED"
    /\ task_request = production_task
    /\ required_capacity = 43
    /\ selected_resource.id = "UNIT-002"

====
